---- MODULE Spec2Model ----
(***************************************************************************)
(* Recovery-by-code strategy of the identity server (package code,         *)
(* strategy_recovery.go) together with the flow gates of package flow.     *)
(*                                                                         *)
(* Every inbound submission is one request worker.  A worker runs          *)
(* Strategy.Recover on its own in-memory copy of the flow; each action of  *)
(* the model is the stretch of the handler up to and including one call    *)
(* into a shared collaborator (flow persister, code persister, code        *)
(* sender, identity pool, session manager).                                *)
(***************************************************************************)
EXTENDS Integers, Sequences, FiniteSets, TLC

\* ------------------------------------------------------------- bounds
MaxRequests == 3     \* submissions handled one after another in one behaviour
MaxRaced == 2        \* submissions handled by concurrent workers in one behaviour
MaxFaults == 1       \* collaborator calls that may fail in one behaviour

Workers == {"w1", "w2"}

\* ------------------------------------------------------------- constants of the program
StateChooseMethod == "choose_method"
StateEmailSent == "sent_email"
StatePassedChallenge == "passed_challenge"

TypeBrowser == "browser"
TypeAPI == "api"

RecoveryStrategyID == "code"
CredentialsTypeCodeAuth == "code"
CredentialsTypeRecoveryCode == "code_recovery"
AuthenticatorAssuranceLevel1 == "aal1"

RecoveryCodeTypeSelfService == "self_service"
RecoveryCodeTypeAdmin == "admin"

ErrStrategyNotResponsible == "ErrStrategyNotResponsible"
ErrCompletedByStrategy == "ErrCompletedByStrategy"
ErrCodeNotFound == "ErrCodeNotFound"
ErrUnknownAddress == "ErrUnknownAddress"
ErrOriginHeaderNeedsBrowserFlow == "ErrOriginHeaderNeedsBrowserFlow"
ErrCookieHeaderNeedsBrowserFlow == "ErrCookieHeaderNeedsBrowserFlow"

\* text.* messages
MsgEmailWithCodeSent == "RecoveryEmailWithCodeSent"
MsgCodeInvalidOrAlreadyUsed == "RecoveryCodeInvalidOrAlreadyUsed"
MsgRetrySuccess == "RecoveryRetrySuccess"
MsgStateFailure == "RecoveryStateFailure"
MsgFlowExpired == "RecoveryFlowExpired"
MsgFromError == "MessageParsedFromError"     \* what UI.ParseError adds for an error

\* The order of the flow states.
Rank(state) ==
    CASE state = StateChooseMethod -> 0
      [] state = StateEmailSent -> 1
      [] state = StatePassedChallenge -> 2
      [] OTHER -> 0 - 1

Emails == {"", "a", "u"}      \* "" absent, "a" bound to identity 1, "u" bound to nobody
\* Code values are the row numbers of the code table; 0 stands for an empty or
\* never issued value.  Every request issues at most one code.
CodeValues == 0 .. MaxRequests + 1

VARIABLES
    flows,      \* RecoveryFlow table: flow ID -> persisted record
    codes,      \* RecoveryCode table: code value -> record (deleted rows kept as tombstones)
    addresses,  \* VerifiableAddresses of identity 1
    sessions,   \* sessions issued, in order
    faults,     \* collaborator failures so far
    started,    \* submissions received so far
    accepted,   \* per code value: submissions that went on to the identity lookup
    req,        \* per worker: the request it is handling
    call,       \* one invocation of a gate of package flow: its arguments and result
    loggedIn    \* the submitting client holds a valid session (FetchFromRequest succeeds)

vars == <<flows, codes, addresses, sessions, faults, started, accepted, req, call,
          loggedIn>>

\* ------------------------------------------------------------- records
NoFlow ==
    [state |-> "none", msgs |-> <<>>, recovered |-> 0, type |-> TypeBrowser,
     skip |-> FALSE, active |-> "none"]

IdleReq ==
    [pc |-> "idle", fid |-> 0, f |-> NoFlow, email |-> "", code |-> 0, tok |-> TRUE,
     hdr |-> "none", ret |-> "none", resp |-> <<>>, useRes |-> "none",
     sendRes |-> "none", cid |-> 0, newFlow |-> 0, retryType |-> TypeBrowser,
     retryErr |-> "none", retryMsg |-> "none", prior |-> {}, wrote |-> FALSE,
     csrf |-> "none", sess |-> 0, identity |-> 0, ident |-> <<>>, s0 |-> "none",
     del |-> FALSE, usable |-> {}]

Active(w) == req[w].pc # "idle"

\* No gate invocation is being looked at on its own.
NoCall == [fn |-> "none"]

\* A code row is "live" until it is used (UsedAt set), deleted or expired.
LiveCode(c) == c.status = "live"

LiveCodesOf(fid) == {i \in 1 .. Len(codes) : codes[i].flow = fid /\ LiveCode(codes[i])}

\* ------------------------------------------------------------- gates (package flow)
\* strings.HasPrefix; names are written as sequences of characters.
HasPrefix(s, prefix) ==
    Len(s) >= Len(prefix) /\ SubSeq(s, 1, Len(prefix)) = prefix

\* The prefix of the cookies Cloudflare sets, "__cf".
CloudflarePrefix == <<"_", "_", "c", "f">>

\* Variant: the Cloudflare workaround is missing, any cookie counts.
hasCookie_AnyCookie(cookies, i) == Len(cookies) > 0

\* EnsureCSRF, lines 508-514: the loop over the cookies of the request, from
\* the i-th on.
RECURSIVE hasCookie(_, _)
hasCookie(cookies, i) ==
    IF i > Len(cookies) THEN FALSE
    ELSE IF ~HasPrefix(cookies[i], CloudflarePrefix) THEN TRUE
    ELSE hasCookie(cookies, i + 1)

\* nosurf.VerifyToken: the submitted token is the one generated for the request.
VerifyToken(realToken, sentToken) == realToken # "" /\ sentToken = realToken

\* origin is the Origin header of the request, cookies the names of its
\* cookies, generated the token of generator(r), actual the submitted token.
EnsureCSRF(flowType, disableAPIFlowEnforcement, origin, cookies, generated, actual) ==
    IF flowType = TypeAPI
    THEN IF disableAPIFlowEnforcement THEN "ok"
         ELSE IF origin # "" THEN ErrOriginHeaderNeedsBrowserFlow
         ELSE IF hasCookie(cookies, 1) THEN ErrCookieHeaderNeedsBrowserFlow
         ELSE "ok"
    ELSE IF ~VerifyToken(generated, actual) THEN "ErrCSRF"
    ELSE "ok"

RegistrationFlow == "registration"
LoginFlow == "login"

\* strings.ToLower on the method names of the model.
ToLower(s) ==
    CASE s = "CODE" -> "code"
      [] s = "Code" -> "code"
      [] OTHER -> s

\* strings.EqualFold
EqualFold(s, t) == ToLower(s) = ToLower(t)

\* Variant: the flow being executed is not looked at.
CodeStrategyEnabled_AnyFlow(flowName, config) == config.code.Enabled

\* MethodEnabledAndAllowed, lines 570-577: the switch of the code strategy.
CodeStrategyEnabled(flowName, config) ==
    CASE flowName = RegistrationFlow -> config.code.RegistrationEnabled
      [] flowName = LoginFlow -> config.code.LoginEnabled
      [] OTHER -> config.code.Enabled

\* config.code is SelfServiceCodeStrategy, config.strategy[id] is
\* SelfServiceStrategy(id).Enabled.
MethodEnabledAndAllowed(flowName, expected, actual, config) ==
    IF actual # expected THEN ErrStrategyNotResponsible
    ELSE LET ok == IF EqualFold(actual, CredentialsTypeCodeAuth)
                   THEN CodeStrategyEnabled(flowName, config)
                   ELSE config.strategy[expected]
         IN IF ~ok THEN "ErrNotFound" ELSE "ok"

\* ------------------------------------------------------------- the request as the gates see it
\* hdr tells which of the Origin header and a session cookie the request carries.
RequestOrigin(hdr) == IF hdr \in {"origin", "both"} THEN "https://app" ELSE ""

RequestCookies(hdr) ==
    IF hdr \in {"cookie", "both"} THEN <<CloudflarePrefix, <<"s", "i", "d">>>> ELSE <<>>

\* s.deps.GenerateCSRFToken(r)
GenerateCSRFToken == "t1"

\* body.CSRFToken: the generated token or none.
CSRFToken(tok) == IF tok THEN GenerateCSRFToken ELSE ""

\* The configuration when the code strategy is enabled or not.
StrategyConfig(enabled) ==
    [code |-> [Enabled |-> enabled, RegistrationEnabled |-> FALSE, LoginEnabled |-> FALSE],
     strategy |-> [m \in {"link", "password"} |-> TRUE]]

\* ------------------------------------------------------------- helpers of the strategy
\* Variant: the active method of the flow is not looked at.
isCodeFlow_Always(f) == TRUE

\* isCodeFlow, lines 85-91
isCodeFlow(f) == f.active = RecoveryStrategyID

\* Variant: the gate of Recover is skipped for every flow.
RecoverCSRFGate_Skipped(f, disable, hdr, tok) == "ok"

\* Recover, lines 104-112: the CSRF gate of the submitted flow.
RecoverCSRFGate(f, disable, hdr, tok) ==
    IF f.skip THEN "ok"
    ELSE EnsureCSRF(f.type, disable, RequestOrigin(hdr), RequestCookies(hdr),
                    GenerateCSRFToken, CSRFToken(tok))

\* Variant: a code in the payload makes the submission a code submission,
\* whatever the email.
IsCodeSubmission_EmailIgnored(f, email) == f.state # StateChooseMethod

\* Recover, line 119: a submission without an email to a flow that left
\* choose_method is a code submission.
IsCodeSubmission(f, email) == f.state # StateChooseMethod /\ email = ""

\* Variant: the passed_challenge case is missing, the flow is handled as a form.
RecoverSwitch_PassedAsForm(state) ==
    CASE state = StateChooseMethod -> "form"
      [] state = StateEmailSent -> "form"
      [] state = StatePassedChallenge -> "form"
      [] OTHER -> MsgStateFailure

\* Recover, lines 149-159: dispatch on the state of the fetched flow.
RecoverSwitch(state) ==
    CASE state = StateChooseMethod -> "form"
      [] state = StateEmailSent -> "form"
      [] state = StatePassedChallenge -> MsgRetrySuccess
      [] OTHER -> MsgStateFailure

\* Variant: the error is also written to the client.
HandleRecoveryError_Written(r, err) ==
    [r EXCEPT !.pc = "done", !.ret = err,
              !.resp = Append(r.resp, [kind |-> "json_error", status |-> 400, target |-> 0])]

\* HandleRecoveryError returns the error it was given; the request ends.
HandleRecoveryError(r, err) == [r EXCEPT !.pc = "done", !.ret = err]

retryRecoveryFlowWithError(r, ft, err) ==
    [r EXCEPT !.pc = "retry", !.retryType = ft, !.retryErr = err]

retryRecoveryFlowWithMessage(r, ft, msg) ==
    [r EXCEPT !.pc = "retry", !.retryType = ft, !.retryMsg = msg]

\* The flow recovery.NewFlow builds for the retry path.
NewFlow(ft, msg) ==
    [state |-> StateChooseMethod, msgs |-> <<msg>>, recovered |-> 0, type |-> ft,
     skip |-> FALSE, active |-> RecoveryStrategyID]

\* One collaborator call fails.
Fault == faults < MaxFaults /\ faults' = faults + 1
NoFault == faults' = faults

\* ------------------------------------------------------------- initial state
Init ==
    /\ \E ft \in {TypeBrowser, TypeAPI}, act \in {RecoveryStrategyID, "link"}, adm \in BOOLEAN :
          IF adm
          THEN /\ ft = TypeBrowser
               /\ act = RecoveryStrategyID
               /\ flows = <<[state |-> StateEmailSent, msgs |-> <<>>, recovered |-> 0,
                             type |-> TypeBrowser, skip |-> TRUE,
                             active |-> RecoveryStrategyID]>>
               /\ codes = <<[flow |-> 1, identity |-> 1, address |-> "a",
                             ctype |-> RecoveryCodeTypeAdmin, status |-> "live"]>>
          ELSE /\ flows = <<[state |-> StateChooseMethod, msgs |-> <<>>, recovered |-> 0,
                             type |-> ft, skip |-> FALSE, active |-> act]>>
               /\ codes = <<>>
    /\ \E v \in BOOLEAN :
          addresses = <<[value |-> "a", verified |-> v, verifiedAt |-> IF v THEN 1 ELSE 0,
                         status |-> IF v THEN "completed" ELSE "pending"],
                        [value |-> "b", verified |-> FALSE, verifiedAt |-> 0,
                         status |-> "pending"]>>
    /\ sessions = <<>>
    /\ faults = 0
    /\ started = 0
    /\ accepted = [c \in CodeValues |-> 0]
    /\ req = [w \in Workers |-> IdleReq]
    /\ call = NoCall
    /\ loggedIn \in BOOLEAN

\* ------------------------------------------------------------- a submission arrives
\* The caller fetches the flow and hands Recover its copy f together with the
\* decoded request.
Payloads ==
    {[email |-> "", code |-> c] : c \in 0 .. Len(codes)}
        \cup {[email |-> e, code |-> 0] : e \in {"a", "u"}}
        \cup {[email |-> "a", code |-> c] : c \in {Len(codes)}}

\* Strategy.Recover, lines 93-138: everything up to the first call that reads or
\* writes the flow or code tables.  decodeOK, disable, enabled, authenticated, method
\* and json are what the decoder, the configuration, the session manager and
\* the request headers report for this request.
RecoverEnter(r, decodeOK, disable, enabled, authenticated, method, json) ==
    LET gate == RecoverCSRFGate(r.f, disable, r.hdr, r.tok)
        r1 == [r EXCEPT !.f.msgs = <<>>, !.csrf = gate]
    IN
    IF ~isCodeFlow(r.f) THEN HandleRecoveryError(r, ErrStrategyNotResponsible)
    ELSE IF ~decodeOK THEN HandleRecoveryError(r, "ErrDecode")
    ELSE IF gate # "ok"
         THEN retryRecoveryFlowWithError([r EXCEPT !.csrf = gate], TypeBrowser, gate)
    ELSE IF IsCodeSubmission(r.f, r.email)
         THEN LET m == MethodEnabledAndAllowed("recovery", RecoveryStrategyID,
                                               RecoveryStrategyID, StrategyConfig(enabled))
              IN IF m # "ok" THEN HandleRecoveryError(r1, m)
                 ELSE [r1 EXCEPT !.pc = "useCode"]
    ELSE IF authenticated
         THEN [r1 EXCEPT !.pc = "done", !.ret = ErrCompletedByStrategy,
                         !.resp = Append(r1.resp,
                             IF json THEN [kind |-> "json_error", status |-> 400, target |-> 0]
                             ELSE [kind |-> "redirect", status |-> 307, target |-> 0])]
    ELSE LET m == MethodEnabledAndAllowed("recovery", RecoveryStrategyID, method,
                                          StrategyConfig(enabled))
         IN IF m # "ok" THEN HandleRecoveryError(r1, m)
            ELSE [r1 EXCEPT !.pc = "getFlow"]

\* No request has returned without its caller having finished with it.  The
\* caller's last step touches nothing shared, so it is taken first.
Quiet == \A v \in Workers : req[v].pc # "done"

Start(w) ==
    /\ Quiet
    /\ req[w].pc = "idle"
    /\ started' = started + 1
    /\ \E fid \in 1 .. Len(flows), body \in Payloads,
          tok \in BOOLEAN, hdr \in {"none", "origin", "cookie", "both"},
          decodeOK \in BOOLEAN, disable \in BOOLEAN, enabled \in BOOLEAN,
          method \in {RecoveryStrategyID, "link"}, json \in BOOLEAN :
          /\ IF flows[fid].type = TypeAPI THEN tok = FALSE ELSE hdr = "none"
          /\ req' = [req EXCEPT ![w] =
                RecoverEnter([IdleReq EXCEPT !.fid = fid, !.f = flows[fid],
                                             !.s0 = flows[fid].state,
                                             !.email = body.email, !.code = body.code,
                                             !.tok = tok, !.hdr = hdr],
                             decodeOK, disable, enabled, loggedIn, method, json)]
    /\ UNCHANGED <<call, loggedIn, flows, codes, addresses, sessions, faults, accepted>>

\* ------------------------------------------------------------- retry path, lines 265-326
\* Variant: the expiry of the triggering error is not told apart.
RetryMessage_NoExpiry(r) ==
    IF r.retryMsg # "none" THEN r.retryMsg ELSE MsgFromError

\* The message the new flow carries.
RetryMessage(r) ==
    IF r.retryMsg # "none" THEN r.retryMsg
    ELSE IF r.retryErr = "ErrExpired" THEN MsgFlowExpired
    ELSE MsgFromError

Retry(w) ==
    LET r == req[w] IN
    /\ Quiet
    /\ r.pc = "retry"
    /\ \/ /\ Fault      \* NewFlow, ParseError or CreateRecoveryFlow fails: the error is returned
          /\ req' = [req EXCEPT ![w] = [r EXCEPT !.pc = "done", !.ret = "ErrRetry"]]
          /\ UNCHANGED flows
       \/ /\ NoFault
          /\ flows' = Append(flows, NewFlow(r.retryType, RetryMessage(r)))
          /\ req' = [req EXCEPT ![w] =
                [r EXCEPT !.pc = "done", !.ret = ErrCompletedByStrategy,
                          !.newFlow = Len(flows) + 1,
                          !.resp = Append(r.resp, [kind |-> "redirect", status |-> 303,
                                                   target |-> Len(flows) + 1])]]
    /\ UNCHANGED <<call, loggedIn, started, codes, addresses, sessions, accepted>>

\* ------------------------------------------------------------- the caller is done with the request
Return(w) ==
    /\ req[w].pc = "done"
    /\ req' = [req EXCEPT ![w] = IdleReq]
    /\ UNCHANGED <<call, loggedIn, flows, codes, addresses, sessions, faults, started, accepted>>

\* ------------------------------------------------------------- Strategy.Recover, lines 140-159,
\* and recoveryHandleFormSubmission, lines 329-339
GetFlow(w) ==
    LET r == req[w] IN
    /\ Quiet
    /\ r.pc = "getFlow"
    /\ \/ /\ Fault      \* GetRecoveryFlow fails
          /\ req' = [req EXCEPT ![w] = HandleRecoveryError(r, "ErrPersist")]
       \/ /\ NoFault
          /\ \E expired \in BOOLEAN, disable \in BOOLEAN :
                LET fl == flows[r.fid]
                    r1 == [r EXCEPT !.f = fl]
                    gate == EnsureCSRF(fl.type, disable, RequestOrigin(r.hdr),
                                       RequestCookies(r.hdr), GenerateCSRFToken,
                                       CSRFToken(r.tok))
                IN
                req' = [req EXCEPT ![w] =
                    IF expired THEN HandleRecoveryError(r1, "ErrExpired")
                    ELSE IF RecoverSwitch(fl.state) # "form"
                         THEN retryRecoveryFlowWithMessage(r1, fl.type, RecoverSwitch(fl.state))
                    ELSE IF r.email = "" THEN HandleRecoveryError(r1, "ErrRequired")
                    ELSE IF gate # "ok" THEN HandleRecoveryError([r1 EXCEPT !.csrf = gate], gate)
                    ELSE [r1 EXCEPT !.pc = "deleteCodes"]]
    /\ UNCHANGED <<call, loggedIn, started, flows, codes, addresses, sessions, accepted>>

\* DeleteRecoveryCodesOfFlow of the code persister: every code of the flow is gone.
DeleteRecoveryCodesOfFlow(fid) ==
    [i \in 1 .. Len(codes) |-> IF codes[i].flow = fid
                                THEN [codes[i] EXCEPT !.status = "deleted"]
                                ELSE codes[i]]

\* Variant: the codes of the flow are not deleted before the new one is sent.
DeleteCodes_Skipped(w) ==
    LET r == req[w] IN
    /\ Quiet
    /\ r.pc = "deleteCodes"
    /\ NoFault
    /\ req' = [req EXCEPT ![w] =
          [r EXCEPT !.pc = "sendCode", !.del = TRUE, !.usable = LiveCodesOf(r.fid),
                    !.prior = {i \in 1 .. Len(codes) : codes[i].flow = r.fid}]]
    /\ UNCHANGED <<call, loggedIn, started, flows, codes, addresses, sessions, accepted>>

\* recoveryHandleFormSubmission, lines 341-343
DeleteCodes(w) ==
    LET r == req[w] IN
    /\ Quiet
    /\ r.pc = "deleteCodes"
    /\ \/ /\ Fault
          /\ req' = [req EXCEPT ![w] = HandleRecoveryError(r, "ErrPersist")]
          /\ UNCHANGED codes
       \/ /\ NoFault
          /\ codes' = DeleteRecoveryCodesOfFlow(r.fid)
          /\ req' = [req EXCEPT ![w] =
                [r EXCEPT !.pc = "sendCode", !.del = TRUE, !.usable = LiveCodesOf(r.fid),
                          !.prior = {i \in 1 .. Len(codes) : codes[i].flow = r.fid}]]
    /\ UNCHANGED <<call, loggedIn, started, flows, addresses, sessions, accepted>>

\* SendRecoveryCode of the code sender: a code is created and mailed when the
\* address belongs to an identity, ErrUnknownAddress is reported otherwise.
SendRecoveryCode(fid, email) ==
    IF email = "a"
    THEN [err |-> "nil",
          codes |-> Append(codes, [flow |-> fid, identity |-> 1, address |-> email,
                                   ctype |-> RecoveryCodeTypeSelfService,
                                   status |-> "live"])]
    ELSE [err |-> ErrUnknownAddress, codes |-> codes]

\* Variant: every error of the sender is swallowed.
SendContinues_AnyError(err) == TRUE

\* Variant: an unknown address is returned as an error like any other.
SendContinues_OnlyNil(err) == err = "nil"

\* recoveryHandleFormSubmission, lines 345-350: only an unknown address is swallowed.
SendContinues(err) == err = "nil" \/ err = ErrUnknownAddress

\* Variant: the state of the flow is left as it was.
FormFlow_StateKept(f) ==
    [f EXCEPT !.msgs = <<MsgEmailWithCodeSent>>, !.active = RecoveryStrategyID]

\* recoveryHandleFormSubmission, lines 352-375: the flow after a code was sent.
FormFlow(f) ==
    [f EXCEPT !.msgs = <<MsgEmailWithCodeSent>>, !.state = StateEmailSent,
              !.active = RecoveryStrategyID]

SendCode(w) ==
    LET r == req[w] IN
    /\ Quiet
    /\ r.pc = "sendCode"
    /\ \E sent \in {[err |-> "ErrSend", codes |-> codes], SendRecoveryCode(r.fid, r.email)} :
          /\ IF sent.err = "ErrSend" THEN Fault ELSE NoFault
          /\ codes' = sent.codes
          /\ req' = [req EXCEPT ![w] =
                IF SendContinues(sent.err)
                THEN [r EXCEPT !.pc = "updateForm", !.sendRes = sent.err, !.f = FormFlow(r.f)]
                ELSE HandleRecoveryError([r EXCEPT !.sendRes = sent.err], sent.err)]
    /\ UNCHANGED <<call, loggedIn, started, flows, addresses, sessions, accepted>>

\* recoveryHandleFormSubmission, lines 376-380
UpdateForm(w) ==
    LET r == req[w] IN
    /\ Quiet
    /\ r.pc = "updateForm"
    /\ \/ /\ Fault
          /\ req' = [req EXCEPT ![w] = HandleRecoveryError(r, "ErrPersist")]
          /\ UNCHANGED flows
       \/ /\ NoFault
          /\ flows' = [flows EXCEPT ![r.fid] = r.f]
          /\ req' = [req EXCEPT ![w] = [r EXCEPT !.pc = "done", !.ret = "nil", !.wrote = TRUE]]
    /\ UNCHANGED <<call, loggedIn, started, codes, addresses, sessions, accepted>>

\* ------------------------------------------------------------- recoveryUseCode, lines 234-263
\* UseRecoveryCode of the code persister: looks the value up among the codes of
\* the flow; an absent, used or expired code is ErrCodeNotFound, otherwise the
\* code is marked used and returned, in one indivisible step.
UseRecoveryCode(fid, value) ==
    IF value \in 1 .. Len(codes) /\ codes[value].flow = fid /\ LiveCode(codes[value])
    THEN {[err |-> "nil", cid |-> value, identity |-> codes[value].identity,
           codes |-> [codes EXCEPT ![value].status = "used"]],
          [err |-> ErrCodeNotFound, cid |-> 0, identity |-> 0,      \* its lifetime is over
           codes |-> [codes EXCEPT ![value].status = "expired"]]}
    ELSE {[err |-> ErrCodeNotFound, cid |-> 0, identity |-> 0, codes |-> codes]}

\* Variant: ErrCodeNotFound is not told apart from success.
UseCodeOutcome_NotFoundAccepted(err) ==
    IF err \notin {"nil", ErrCodeNotFound} THEN "retry" ELSE "accept"

\* Variant: the error of UseRecoveryCode is not looked at.
UseCodeOutcome_ErrorIgnored(err) == "accept"

\* Variant: ErrCodeNotFound is not special-cased and abandons the flow.
UseCodeOutcome_NotFoundRetried(err) ==
    IF err # "nil" THEN "retry" ELSE "accept"

\* recoveryUseCode, lines 237-248: what the handler does with the persister's answer.
UseCodeOutcome(err) ==
    IF err = ErrCodeNotFound THEN "notfound"
    ELSE IF err # "nil" THEN "retry"
    ELSE "accept"

\* recoveryUseCode, lines 238-239
NotFoundFlow(f) == [f EXCEPT !.msgs = <<MsgCodeInvalidOrAlreadyUsed>>]

UseCode(w) ==
    LET r == req[w] IN
    /\ Quiet
    /\ r.pc = "useCode"
    /\ \E used \in {[err |-> "ErrPersist", cid |-> 0, identity |-> 0, codes |-> codes]}
                      \cup UseRecoveryCode(r.fid, r.code) :
          LET out == UseCodeOutcome(used.err)
              r1 == [r EXCEPT !.useRes = used.err, !.cid = used.cid,
                              !.identity = used.identity]
          IN
          /\ IF used.err = "ErrPersist" THEN Fault ELSE NoFault
          /\ codes' = used.codes
          /\ accepted' = IF out = "accept"
                         THEN [accepted EXCEPT ![r.code] = @ + 1]
                         ELSE accepted
          /\ req' = [req EXCEPT ![w] =
                CASE out = "notfound" -> [r1 EXCEPT !.pc = "updateNotFound", !.f = NotFoundFlow(r.f)]
                  [] out = "retry" -> retryRecoveryFlowWithError(r1, r.f.type, used.err)
                  [] OTHER -> [r1 EXCEPT !.pc = "getIdentity"]]
    /\ UNCHANGED <<call, loggedIn, started, flows, addresses, sessions>>

\* recoveryUseCode, lines 240-245
UpdateNotFound(w) ==
    LET r == req[w] IN
    /\ Quiet
    /\ r.pc = "updateNotFound"
    /\ \/ /\ Fault
          /\ req' = [req EXCEPT ![w] = retryRecoveryFlowWithError(r, r.f.type, "ErrPersist")]
          /\ UNCHANGED flows
       \/ /\ NoFault
          /\ flows' = [flows EXCEPT ![r.fid] = r.f]
          /\ req' = [req EXCEPT ![w] = [r EXCEPT !.pc = "done", !.ret = "nil", !.wrote = TRUE]]
    /\ UNCHANGED <<call, loggedIn, started, codes, addresses, sessions, accepted>>

\* Variant: the type of the code is not looked at.
VerifiesAddress_AnyCode(ctype) == TRUE

\* recoveryUseCode, lines 255-260: only a self-service code verifies the address.
VerifiesAddress(ctype) == ctype = RecoveryCodeTypeSelfService

\* recoveryUseCode, lines 250-260
GetIdentity(w) ==
    LET r == req[w] IN
    /\ Quiet
    /\ r.pc = "getIdentity"
    /\ \/ /\ IF r.identity = 0 THEN NoFault ELSE Fault    \* GetIdentity fails
          /\ req' = [req EXCEPT ![w] = HandleRecoveryError(r, "ErrIdentity")]
       \/ /\ r.identity # 0
          /\ NoFault
          /\ req' = [req EXCEPT ![w] =
                IF VerifiesAddress(codes[r.cid].ctype)
                THEN [r EXCEPT !.pc = "markVerified", !.ident = addresses]
                ELSE [r EXCEPT !.pc = "issueUpdate"]]
    /\ UNCHANGED <<call, loggedIn, started, flows, codes, addresses, sessions, accepted>>

\* markRecoveryAddressVerified, lines 384-391: the first address with the value.
RECURSIVE FindAddress(_, _, _)
FindAddress(vas, value, idx) ==
    IF idx > Len(vas) THEN 0
    ELSE IF vas[idx].value = value THEN idx
    ELSE FindAddress(vas, value, idx + 1)

\* Variant: a matching address is updated whether verified or not.
NeedsVerification_AnyMatch(vas, idx) == idx # 0

\* markRecoveryAddressVerified, line 393
NeedsVerification(vas, idx) == idx # 0 /\ ~vas[idx].verified

\* markRecoveryAddressVerified, lines 394-397
VerifiedAddress(va) ==
    [va EXCEPT !.verified = TRUE, !.verifiedAt = 2, !.status = "completed"]

\* markRecoveryAddressVerified, lines 383-404
MarkVerified(w) ==
    LET r == req[w]
        idx == FindAddress(r.ident, codes[r.cid].address, 1)
    IN
    /\ Quiet
    /\ r.pc = "markVerified"
    /\ IF NeedsVerification(r.ident, idx)
       THEN \/ /\ Fault      \* UpdateVerifiableAddress fails
               /\ req' = [req EXCEPT ![w] =
                     HandleRecoveryError([r EXCEPT !.ident = <<>>], "ErrUpdateAddress")]
               /\ UNCHANGED addresses
            \/ /\ NoFault
               /\ addresses' = [addresses EXCEPT ![idx] = VerifiedAddress(r.ident[idx])]
               /\ req' = [req EXCEPT ![w] = [r EXCEPT !.pc = "issueUpdate", !.ident = <<>>]]
       ELSE /\ NoFault
            /\ UNCHANGED addresses
            /\ req' = [req EXCEPT ![w] = [r EXCEPT !.pc = "issueUpdate", !.ident = <<>>]]
    /\ UNCHANGED <<call, loggedIn, started, flows, codes, sessions, accepted>>

\* ------------------------------------------------------------- recoveryIssueSession, lines 162-232
\* Variant: the recovered identity is not recorded on the flow.
IssueFlow_NoIdentity(f, id) ==
    [f EXCEPT !.msgs = <<>>, !.state = StatePassedChallenge]

\* lines 165-171
IssueFlow(f, id) ==
    [f EXCEPT !.msgs = <<>>, !.state = StatePassedChallenge, !.recovered = id]

\* lines 165-174
IssueUpdate(w) ==
    LET r == req[w] IN
    /\ Quiet
    /\ r.pc = "issueUpdate"
    /\ \/ /\ Fault
          /\ req' = [req EXCEPT ![w] =
                retryRecoveryFlowWithError([r EXCEPT !.f = IssueFlow(r.f, r.identity)],
                                           r.f.type, "ErrPersist")]
          /\ UNCHANGED flows
       \/ /\ NoFault
          /\ flows' = [flows EXCEPT ![r.fid] = IssueFlow(r.f, r.identity)]
          /\ req' = [req EXCEPT ![w] =
                [r EXCEPT !.pc = "issueSession", !.f = IssueFlow(r.f, r.identity),
                          !.wrote = TRUE]]
    /\ UNCHANGED <<call, loggedIn, started, codes, addresses, sessions, accepted>>

\* Variant: the session is recorded as authenticated by a recovery link.
NewActiveSession_LinkMethod(r) ==
    [identity |-> r.identity, aal |-> AuthenticatorAssuranceLevel1,
     method |-> "link_recovery", flow |-> r.fid, code |-> r.cid]

\* lines 176-177: session.NewActiveSession
NewActiveSession(r) ==
    [identity |-> r.identity, aal |-> AuthenticatorAssuranceLevel1,
     method |-> CredentialsTypeRecoveryCode, flow |-> r.fid, code |-> r.cid]

\* lines 176-193
IssueSession(w) ==
    LET r == req[w] IN
    /\ Quiet
    /\ r.pc = "issueSession"
    /\ \/ /\ Fault      \* NewActiveSession, UpsertAndIssueCookie or UpsertSession fails
          /\ req' = [req EXCEPT ![w] = retryRecoveryFlowWithError(r, r.f.type, "ErrSession")]
          /\ UNCHANGED sessions
       \/ /\ NoFault
          /\ sessions' = Append(sessions, NewActiveSession(r))
          /\ req' = [req EXCEPT ![w] =
                [r EXCEPT !.pc = "issueSettings", !.sess = Len(sessions) + 1]]
    /\ UNCHANGED <<call, loggedIn, started, flows, codes, addresses, accepted>>

\* lines 195-231
IssueSettings(w) ==
    LET r == req[w] IN
    /\ Quiet
    /\ r.pc = "issueSettings"
    /\ \/ /\ Fault      \* the settings flow, the return-to takeover or the post-recovery hook
                     \* fails, with a flow.ExpiredError or with any other error
          /\ \E err \in {"ErrSettings", "ErrExpired"} :
                req' = [req EXCEPT ![w] = retryRecoveryFlowWithError(r, r.f.type, err)]
       \/ /\ NoFault
          /\ \E json \in BOOLEAN :
                req' = [req EXCEPT ![w] =
                    [r EXCEPT !.pc = "done", !.ret = ErrCompletedByStrategy,
                              !.resp = Append(r.resp,
                                  IF r.f.type = TypeAPI
                                  THEN [kind |-> "json", status |-> 200, target |-> r.fid]
                                  ELSE IF json
                                  THEN [kind |-> "json_error", status |-> 422, target |-> 0]
                                  ELSE [kind |-> "redirect", status |-> 303, target |-> 0])]]
    /\ UNCHANGED <<call, loggedIn, started, flows, codes, addresses, sessions, accepted>>

\* ------------------------------------------------------------- specifications
Step(w) ==
    \/ GetFlow(w)
    \/ DeleteCodes(w)
    \/ SendCode(w)
    \/ UpdateForm(w)
    \/ UseCode(w)
    \/ UpdateNotFound(w)
    \/ GetIdentity(w)
    \/ MarkVerified(w)
    \/ IssueUpdate(w)
    \/ IssueSession(w)
    \/ IssueSettings(w)
    \/ Retry(w)
    \/ Return(w)

\* Requests handled by concurrent workers.
StartRaced(w) == started < MaxRaced /\ Start(w)

Next ==
    \E w \in Workers :
        \/ StartRaced(w)
        \/ Step(w)

Spec == Init /\ [][Next]_vars

\* Requests handled one after another: each Recover call runs to completion
\* before the next one starts.
StartSeq == started < MaxRequests /\ Start("w1")

NextSeq ==
    \/ StartSeq
    \/ Step("w1")

SpecSeq == Init /\ [][NextSeq]_vars

\* ------------------------------------------------------------- the gates of package flow on their own
MaxCookies == 2      \* cookies a request carries

\* No recovery request is in progress.
NoRecovery ==
    /\ flows = <<>>
    /\ codes = <<>>
    /\ addresses = <<>>
    /\ sessions = <<>>
    /\ faults = 0
    /\ started = 0
    /\ accepted = [c \in CodeValues |-> 0]
    /\ req = [w \in Workers |-> IdleReq]
    /\ loggedIn = FALSE

\* Cookie names: two of Cloudflare's, a session cookie, and names that share
\* only a part of the prefix.
CookieNames ==
    {<<"_", "_", "c", "f", "_", "b", "m">>, CloudflarePrefix, <<"s", "i", "d">>,
     <<"_", "_", "c">>, <<"c", "f", "_", "_", "x">>}

CookieLists == UNION {[1 .. n -> CookieNames] : n \in 0 .. MaxCookies}

\* A request reaches EnsureCSRF.
InitEnsureCSRF ==
    /\ NoRecovery
    /\ call \in [fn : {"EnsureCSRF"}, flowType : {TypeAPI, TypeBrowser},
                 disableAPIFlowEnforcement : BOOLEAN, origin : {"", "https://app"},
                 cookies : CookieLists, generated : {"t1", "t2"},
                 actual : {"", "t1", "t2"}, out : {"none"}]

CallEnsureCSRF ==
    /\ call.fn = "EnsureCSRF"
    /\ call.out = "none"
    /\ call' = [call EXCEPT !.out = EnsureCSRF(call.flowType, call.disableAPIFlowEnforcement,
                                               call.origin, call.cookies, call.generated,
                                               call.actual)]
    /\ UNCHANGED <<flows, codes, addresses, sessions, faults, started, accepted, req,
                   loggedIn>>

SpecEnsureCSRF == InitEnsureCSRF /\ [][CallEnsureCSRF]_vars

\* A strategy asks MethodEnabledAndAllowed about a submitted method.
InitMethodGate ==
    /\ NoRecovery
    /\ call \in [fn : {"MethodEnabledAndAllowed"},
                 flowName : {RegistrationFlow, LoginFlow, "recovery", "verification"},
                 expected : {"code", "CODE", "link", "password"},
                 actual : {"", "code", "CODE", "link", "password"},
                 config : [code : [Enabled : BOOLEAN, RegistrationEnabled : BOOLEAN,
                                   LoginEnabled : BOOLEAN],
                           strategy : [{"link", "password"} -> BOOLEAN]],
                 out : {"none"}]

CallMethodEnabledAndAllowed ==
    /\ call.fn = "MethodEnabledAndAllowed"
    /\ call.out = "none"
    /\ call' = [call EXCEPT !.out = MethodEnabledAndAllowed(call.flowName, call.expected,
                                                            call.actual, call.config)]
    /\ UNCHANGED <<flows, codes, addresses, sessions, faults, started, accepted, req,
                   loggedIn>>

SpecMethodGate == InitMethodGate /\ [][CallMethodEnabledAndAllowed]_vars

\* ------------------------------------------------------------- markRecoveryAddressVerified on its own
MaxAddresses == 2    \* verifiable addresses of an identity

\* Verifiable addresses as the identity pool returns them.
AddressRows ==
    {[value |-> v, verified |-> b, verifiedAt |-> IF b THEN 1 ELSE 0,
      status |-> IF b THEN "completed" ELSE "pending"] : v \in {"a", "b", "A"}, b \in BOOLEAN}

AddressLists == UNION {[1 .. n -> AddressRows] : n \in 0 .. MaxAddresses}

\* The strategy is about to mark the recovery address of a used code.
InitMarkVerified ==
    /\ NoRecovery
    /\ call \in {[fn |-> "markRecoveryAddressVerified", addresses |-> vas, stored |-> vas,
                  value |-> v, updated |-> <<>>, out |-> "none"] :
                     vas \in AddressLists, v \in {"a", "b", "c"}}

\* markRecoveryAddressVerified, lines 383-404: addresses are the identity's
\* addresses as loaded, stored the rows of the address table, updated the rows
\* handed to UpdateVerifiableAddress.
CallMarkVerified ==
    LET idx == FindAddress(call.addresses, call.value, 1) IN
    /\ call.fn = "markRecoveryAddressVerified"
    /\ call.out = "none"
    /\ IF NeedsVerification(call.addresses, idx)
       THEN \/ call' = [call EXCEPT !.out = "ErrUpdateAddress",
                                    !.updated = <<VerifiedAddress(call.addresses[idx])>>]
            \/ call' = [call EXCEPT !.out = "nil",
                                    !.updated = <<VerifiedAddress(call.addresses[idx])>>,
                                    !.stored[idx] = VerifiedAddress(call.addresses[idx])]
       ELSE call' = [call EXCEPT !.out = "nil"]
    /\ UNCHANGED <<flows, codes, addresses, sessions, faults, started, accepted, req,
                   loggedIn>>

SpecMarkVerified == InitMarkVerified /\ [][CallMarkVerified]_vars

\* ------------------------------------------------------------- CodeAddressVerifier (package hook)
\* Variant: the first address with the value is taken, verified or not.
FirstUnverified_AnyMatch(vas, value, idx) == FindAddress(vas, value, idx)

\* ExecuteLoginPostHook, lines 58-68, ExecutePostRegistrationPostPersistHook,
\* lines 82-92: the first unverified address with the value of the code's
\* address, from the idx-th on; 0 when the loop ends without one.
RECURSIVE FirstUnverified(_, _, _)
FirstUnverified(vas, value, idx) ==
    IF idx > Len(vas) THEN 0
    ELSE IF ~vas[idx].verified /\ value = vas[idx].value THEN idx
    ELSE FirstUnverified(vas, value, idx + 1)

\* lines 61-62, 85-86
HookVerifiedAddress(va) == [va EXCEPT !.verified = TRUE, !.status = "completed"]

\* The body the two hooks share: the outcomes of one execution.  looked tells
\* that the used code of the flow was asked for.
CodeAddressHook(c) ==
    IF c.active # CredentialsTypeCodeAuth THEN {[c EXCEPT !.out = "nil"]}
    ELSE LET idx == FirstUnverified(c.addresses, c.value, 1)
             c1 == [c EXCEPT !.looked = TRUE]
         IN {[c1 EXCEPT !.out = "ErrLookup"]}      \* GetUsed...Code fails
            \cup (IF idx = 0 THEN {[c1 EXCEPT !.out = "nil"]}
                  ELSE {[c1 EXCEPT !.out = "ErrUpdateAddress",
                                   !.updated = <<HookVerifiedAddress(c.addresses[idx])>>],
                        [c1 EXCEPT !.out = "nil",
                                   !.updated = <<HookVerifiedAddress(c.addresses[idx])>>,
                                   !.stored[idx] = HookVerifiedAddress(c.addresses[idx])]})

\* A login or registration flow has ended and its post hook is run for the
\* session's identity; value is the address of the used code of the flow.
InitHook ==
    /\ NoRecovery
    /\ call \in {[fn |-> f, active |-> a, addresses |-> vas, stored |-> vas, value |-> v,
                  looked |-> FALSE, updated |-> <<>>, out |-> "none"] :
                     f \in {"ExecuteLoginPostHook", "ExecutePostRegistrationPostPersistHook"},
                     a \in {CredentialsTypeCodeAuth, "password"},
                     vas \in AddressLists, v \in {"a", "b", "c"}}

ExecuteLoginPostHook ==
    /\ call.fn = "ExecuteLoginPostHook"
    /\ call.out = "none"
    /\ call' \in CodeAddressHook(call)
    /\ UNCHANGED <<flows, codes, addresses, sessions, faults, started, accepted, req,
                   loggedIn>>

ExecutePostRegistrationPostPersistHook ==
    /\ call.fn = "ExecutePostRegistrationPostPersistHook"
    /\ call.out = "none"
    /\ call' \in CodeAddressHook(call)
    /\ UNCHANGED <<flows, codes, addresses, sessions, faults, started, accepted, req,
                   loggedIn>>

NextHook == ExecuteLoginPostHook \/ ExecutePostRegistrationPostPersistHook

SpecHook == InitHook /\ [][NextHook]_vars

\* ------------------------------------------------------------- SAML handler (package saml)
MaxSamlRequests == 3

Providers == {"p1", "p2"}

\* errors.As: some error of the chain has the target's type.
ErrorsAs(chain, target) == \E i \in 1 .. Len(chain) : chain[i] = target

\* handler.go line 121: e is a fresh *session.ErrNoActiveSessionFound and is
\* both the error examined and the target; the request is not consulted.
NoActiveSessionFound(hasSession) ==
    ErrorsAs(<<"ErrNoActiveSessionFound">>, "ErrNoActiveSessionFound")

\* The handler with its process-wide middleware table: samlMiddlewares holds
\* the providers with a middleware; the other fields describe the last
\* operation served (op and pid; prev: the table before it; inst: the result
\* of its instantiateMiddleware call; used: samlMiddlewares[pid] was
\* dereferenced, usedNil: while it had no middleware; forwarded: errors given
\* to the error manager; started: HandleStartAuthFlow was called; status and
\* target: the answer written by the handler itself, 0 when it wrote none).
\* live is the history: the providers instantiated with success since their
\* last DestroyMiddlewareIfExists.
InitSaml ==
    /\ NoRecovery
    /\ call = [fn |-> "saml", samlMiddlewares |-> {}, live |-> {}, served |-> 0,
               op |-> "none", pid |-> "none", prev |-> {}, inst |-> "none",
               used |-> FALSE, usedNil |-> FALSE,
               session |-> FALSE, cookie |-> FALSE, forwarded |-> 0, started |-> FALSE,
               status |-> 0, target |-> "none", out |-> "none"]

\* The fields of the last operation, reset when the next one begins.
SamlBegin(c, op, pid) ==
    [c EXCEPT !.served = @ + 1, !.op = op, !.pid = pid, !.prev = c.samlMiddlewares,
              !.inst = "none", !.used = FALSE, !.usedNil = FALSE,
              !.session = FALSE, !.cookie = FALSE, !.forwarded = 0, !.started = FALSE,
              !.status = 0, !.target = "none", !.out = "none"]

\* Variant: the middleware is stored although a step of the instantiation
\* failed.
instantiateMiddleware_StoredOnFailure(c, pid, instantiated) ==
    [c EXCEPT !.samlMiddlewares = @ \cup {pid},
              !.live = IF instantiated THEN @ \cup {pid} ELSE @,
              !.inst = IF instantiated THEN "ok" ELSE "failed"]

\* handler.go lines 137-291: every failing step returns before the store at
\* line 288.  instantiated: all steps succeed.
instantiateMiddleware(c, pid, instantiated) ==
    IF instantiated
    THEN [c EXCEPT !.samlMiddlewares = @ \cup {pid}, !.live = @ \cup {pid}, !.inst = "ok"]
    ELSE [c EXCEPT !.inst = "failed"]

\* lines 83-89 and 102-108: the handlers instantiate when the entry is nil.
EnsureMiddleware(c, pid, instantiated) ==
    IF pid \notin c.samlMiddlewares THEN instantiateMiddleware(c, pid, instantiated)
    ELSE c

\* samlMiddlewares[pid] is dereferenced.
UseMiddleware(c, pid) ==
    [c EXCEPT !.used = TRUE, !.usedNil = pid \notin c.samlMiddlewares]

\* handler.go lines 79-94.
serveMetadata(pid, instantiated) ==
    /\ call.fn = "saml"
    /\ call.served < MaxSamlRequests
    /\ LET c1 == EnsureMiddleware(SamlBegin(call, "serveMetadata", pid), pid, instantiated)
       IN
       IF c1.inst = "failed"
       THEN call' = [c1 EXCEPT !.forwarded = 1, !.status = 500, !.out = "error"]
       ELSE call' = [UseMiddleware(c1, pid) EXCEPT !.status = 200, !.out = "metadata"]
    /\ UNCHANGED <<flows, codes, addresses, sessions, faults, started, accepted, req,
                   loggedIn>>

\* handler.go lines 97-128.  instantiated: instantiateMiddleware succeeds.
loginWithIdp(pid, hasSession, continuity, instantiated) ==
    /\ call.fn = "saml"
    /\ call.served < MaxSamlRequests
    /\ LET c0 == [SamlBegin(call, "loginWithIdp", pid) EXCEPT
                     !.session = hasSession, !.cookie = continuity]
           c1 == EnsureMiddleware(c0, pid, instantiated)
       IN
       IF c1.inst = "failed"
       THEN \* lines 102-108
            call' = [c1 EXCEPT !.forwarded = 1, !.status = 500, !.out = "error"]
       ELSE IF ~continuity
            THEN \* lines 111-115: the error is forwarded and the nil
                 \* cookie dereferenced
                 call' = [c1 EXCEPT !.forwarded = 1, !.out = "panic"]
            ELSE IF NoActiveSessionFound(hasSession)
            THEN \* line 123
                 call' = [UseMiddleware(c1, pid) EXCEPT !.started = TRUE,
                                                        !.out = "HandleStartAuthFlow"]
            ELSE \* line 126
                 call' = [c1 EXCEPT !.status = 307, !.target = "default_return_to",
                                    !.out = "redirect"]
    /\ UNCHANGED <<flows, codes, addresses, sessions, faults, started, accepted, req,
                   loggedIn>>

\* handler.go lines 137-291, called on its own (the strategy's other entry
\* points): the entry is stored whether or not one exists.
CallInstantiateMiddleware(pid, instantiated) ==
    /\ call.fn = "saml"
    /\ call.served < MaxSamlRequests
    /\ LET c1 == instantiateMiddleware(SamlBegin(call, "instantiateMiddleware", pid),
                                       pid, instantiated)
       IN call' = [c1 EXCEPT !.out = IF c1.inst = "ok" THEN "nil" ELSE "error"]
    /\ UNCHANGED <<flows, codes, addresses, sessions, faults, started, accepted, req,
                   loggedIn>>

\* handler.go lines 130-134
DestroyMiddlewareIfExists(pid) ==
    /\ call.fn = "saml"
    /\ call.served < MaxSamlRequests
    /\ call' = [SamlBegin(call, "DestroyMiddlewareIfExists", pid) EXCEPT
                   !.samlMiddlewares = @ \ {pid}, !.live = @ \ {pid}]
    /\ UNCHANGED <<flows, codes, addresses, sessions, faults, started, accepted, req,
                   loggedIn>>

\* handler.go lines 294-299
GetMiddleware(pid) ==
    /\ call.fn = "saml"
    /\ call.served < MaxSamlRequests
    /\ LET c0 == SamlBegin(call, "GetMiddleware", pid)
       IN call' = [c0 EXCEPT !.out = IF pid \notin c0.samlMiddlewares THEN "error"
                                      ELSE "middleware"]
    /\ UNCHANGED <<flows, codes, addresses, sessions, faults, started, accepted, req,
                   loggedIn>>

NextSaml ==
    \/ \E pid \in Providers, hasSession, continuity, instantiated \in BOOLEAN :
          loginWithIdp(pid, hasSession, continuity, instantiated)
    \/ \E pid \in Providers, instantiated \in BOOLEAN : serveMetadata(pid, instantiated)
    \/ \E pid \in Providers, instantiated \in BOOLEAN :
          CallInstantiateMiddleware(pid, instantiated)
    \/ \E pid \in Providers : DestroyMiddlewareIfExists(pid)
    \/ \E pid \in Providers : GetMiddleware(pid)

SpecSaml == InitSaml /\ [][NextSaml]_vars

\* ------------------------------------------------------------- SAML handler, concurrent requests
\* net/http serves each request on a goroutine of its own and samlMiddlewares
\* (handler.go line 37) is a plain map without a lock, so the handlers'
\* accesses to it interleave.  A request is followed from its presence check
\* to its use of the entry; it carries the continuity cookie.
MaxSamlRaced == 3

Goroutines == {"g1", "g2"}

IdleGoroutine == [pc |-> "idle", op |-> "none", pid |-> "none", out |-> "none"]

\* reinstantiated: a middleware was stored for a provider that had one;
\* fatal: the runtime ended the process on concurrent map writes.
InitSamlRaced ==
    /\ NoRecovery
    /\ call = [fn |-> "samlRaced", samlMiddlewares |-> {}, served |-> 0,
               g |-> [w \in Goroutines |-> IdleGoroutine],
               reinstantiated |-> FALSE, fatal |-> FALSE]

\* lines 83 and 102: the presence check of serveMetadata and loginWithIdp.
RacedCheck(g, op, pid) ==
    /\ call.fn = "samlRaced"
    /\ ~call.fatal
    /\ call.served < MaxSamlRaced
    /\ call.g[g].pc = "idle"
    /\ call' = [call EXCEPT !.served = @ + 1,
                            !.g[g] = [pc |-> IF pid \in call.samlMiddlewares THEN "use"
                                             ELSE "instantiate",
                                      op |-> op, pid |-> pid, out |-> "none"]]
    /\ UNCHANGED <<flows, codes, addresses, sessions, faults, started, accepted, req,
                   loggedIn>>

\* lines 84-88, 103-107: instantiateMiddleware fails and the handler answers
\* 500.
RacedInstantiateFails(g) ==
    /\ call.fn = "samlRaced"
    /\ ~call.fatal
    /\ call.g[g].pc = "instantiate"
    /\ call' = [call EXCEPT !.g[g].pc = "idle", !.g[g].out = "error"]
    /\ UNCHANGED <<flows, codes, addresses, sessions, faults, started, accepted, req,
                   loggedIn>>

\* line 288: the store that ends a successful instantiateMiddleware.  Two
\* goroutines at their stores write the map without synchronisation: the
\* runtime may detect it and end the process, or both stores take place.
RacedStore(g) ==
    /\ call.fn = "samlRaced"
    /\ ~call.fatal
    /\ call.g[g].pc = "instantiate"
    /\ \E detected \in BOOLEAN :
          /\ detected => \E h \in Goroutines \ {g} : call.g[h].pc = "instantiate"
          /\ call' = IF detected THEN [call EXCEPT !.fatal = TRUE]
                     ELSE [call EXCEPT
                              !.samlMiddlewares = @ \cup {call.g[g].pid},
                              !.reinstantiated = @ \/ call.g[g].pid \in call.samlMiddlewares,
                              !.g[g].pc = "use"]
    /\ UNCHANGED <<flows, codes, addresses, sessions, faults, started, accepted, req,
                   loggedIn>>

\* lines 91 and 123: samlMiddlewares[pid] is read again and dereferenced; a
\* nil entry makes the goroutine panic.
RacedUse(g) ==
    /\ call.fn = "samlRaced"
    /\ ~call.fatal
    /\ call.g[g].pc = "use"
    /\ call' = [call EXCEPT !.g[g].pc = "idle",
                            !.g[g].out = IF call.g[g].pid \in call.samlMiddlewares
                                         THEN call.g[g].op ELSE "panic"]
    /\ UNCHANGED <<flows, codes, addresses, sessions, faults, started, accepted, req,
                   loggedIn>>

\* lines 130-134, called while requests are being served.
RacedDestroy(pid) ==
    /\ call.fn = "samlRaced"
    /\ ~call.fatal
    /\ call.served < MaxSamlRaced
    /\ pid \in call.samlMiddlewares
    /\ call' = [call EXCEPT !.served = @ + 1, !.samlMiddlewares = @ \ {pid}]
    /\ UNCHANGED <<flows, codes, addresses, sessions, faults, started, accepted, req,
                   loggedIn>>

NextSamlRaced ==
    \/ \E g \in Goroutines, op \in {"serveMetadata", "loginWithIdp"}, pid \in Providers :
          RacedCheck(g, op, pid)
    \/ \E g \in Goroutines : RacedInstantiateFails(g)
    \/ \E g \in Goroutines : RacedStore(g)
    \/ \E g \in Goroutines : RacedUse(g)
    \/ \E pid \in Providers : RacedDestroy(pid)

SpecSamlRaced == InitSamlRaced /\ [][NextSamlRaced]_vars

\* ------------------------------------------------------------- assurance levels (package identity)
MaxAalLen == 4

\* credentials.go lines 32 and 34
NoAuthenticatorAssuranceLevel == "aal0"

AuthenticatorAssuranceLevel2 == "aal2"

\* The strings of at most n characters over the characters of the levels.
RECURSIVE AalStrings(_)
AalStrings(n) ==
    IF n = 0 THEN {""}
    ELSE LET shorter == AalStrings(n - 1)
         IN shorter \cup {w \o c : w \in shorter, c \in {"a", "l", "0", "1", "2"}}

\* sql.NullString{}
NullString == [String |-> "", Valid |-> FALSE]

\* credentials.go lines 42-56
NewNullableAuthenticatorAssuranceLevel(aal) ==
    IF aal = NoAuthenticatorAssuranceLevel \/ aal = AuthenticatorAssuranceLevel1
          \/ aal = AuthenticatorAssuranceLevel2
    THEN [String |-> aal, Valid |-> TRUE]
    ELSE NullString

\* Variant: every valid nullable is taken for a level.
ToAAL_AnyValid(n) == IF ~n.Valid THEN <<"", FALSE>> ELSE <<n.String, TRUE>>

\* credentials.go lines 59-73
ToAAL(n) ==
    IF ~n.Valid THEN <<"", FALSE>>
    ELSE IF n.String = NoAuthenticatorAssuranceLevel
         THEN <<NoAuthenticatorAssuranceLevel, TRUE>>
    ELSE IF n.String = AuthenticatorAssuranceLevel1
         THEN <<AuthenticatorAssuranceLevel1, TRUE>>
    ELSE IF n.String = AuthenticatorAssuranceLevel2
         THEN <<AuthenticatorAssuranceLevel2, TRUE>>
    ELSE <<"", FALSE>>

\* Either a level string that is to be wrapped and read back, or a nullable
\* as a database row can hold it (any string, valid or not) that is to be
\* read.
InitAAL ==
    /\ NoRecovery
    /\ call \in {[fn |-> "aal", pc |-> "new", aal |-> a, n |-> NullString,
                  made |-> FALSE, out |-> <<>>] : a \in AalStrings(MaxAalLen)}
            \cup {[fn |-> "aal", pc |-> "toAAL", aal |-> "", n |-> [String |-> a, Valid |-> v],
                   made |-> FALSE, out |-> <<>>] : a \in AalStrings(MaxAalLen), v \in BOOLEAN}

CallNewNullableAuthenticatorAssuranceLevel ==
    /\ call.fn = "aal"
    /\ call.pc = "new"
    /\ call' = [call EXCEPT !.pc = "toAAL", !.made = TRUE,
                            !.n = NewNullableAuthenticatorAssuranceLevel(call.aal)]
    /\ UNCHANGED <<flows, codes, addresses, sessions, faults, started, accepted, req,
                   loggedIn>>

CallToAAL ==
    /\ call.fn = "aal"
    /\ call.pc = "toAAL"
    /\ call' = [call EXCEPT !.pc = "done", !.out = ToAAL(call.n)]
    /\ UNCHANGED <<flows, codes, addresses, sessions, faults, started, accepted, req,
                   loggedIn>>

NextAAL == CallNewNullableAuthenticatorAssuranceLevel \/ CallToAAL

SpecAAL == InitAAL /\ [][NextAAL]_vars

\* ============================================================= claims

\* C1: a recovery code is accepted at most once.  Over any sequence of code
\* submissions to a flow at most one submission of a code value goes on to the
\* identity lookup and session issuance; a submission of a value that was
\* already accepted is answered by the persister with ErrCodeNotFound (or
\* fails in the persister), gets the "invalid or already used" message and
\* issues no session.
C1_SingleUse ==
    /\ \A c \in CodeValues : accepted[c] <= 1
    /\ accepted[0] = 0
    /\ \A c \in 1 .. Len(codes) :
          Cardinality({i \in 1 .. Len(sessions) : sessions[i].code = c}) <= accepted[c]
    /\ \A w \in Workers :
          LET r == req[w] IN
          (r.useRes # "none" /\ accepted[r.code] >= 1 /\ r.cid # r.code) =>
              /\ r.useRes \in {ErrCodeNotFound, "ErrPersist"}
              /\ r.sess = 0
              /\ r.pc \in {"updateNotFound", "retry", "done"}
              /\ r.useRes = ErrCodeNotFound => r.f.msgs = <<MsgCodeInvalidOrAlreadyUsed>>

\* A code of the flow was accepted before and is now submitted again: not found.
C1_Witness ==
    \E w \in Workers :
        /\ req[w].useRes = ErrCodeNotFound
        /\ req[w].code \in 1 .. Len(codes)
        /\ codes[req[w].code].flow = req[w].fid
        /\ codes[req[w].code].status = "used"
        /\ accepted[req[w].code] = 1
        /\ req[w].pc = "done"
        /\ req[w].ret = "nil"

\* C2: two concurrent Recover requests submit the same code to the same flow
\* and UseRecoveryCode is atomic: they are never both accepted, the one that
\* is not accepted while the other is observes ErrCodeNotFound (unless its
\* own persister call failed) and issues no session, and no code ever has two
\* sessions.
C2_OneWinner ==
    /\ \A c \in 1 .. Len(codes) :
          Cardinality({i \in 1 .. Len(sessions) : sessions[i].code = c}) <= 1
    /\ \A w1, w2 \in Workers :
          LET r1 == req[w1]
              r2 == req[w2]
          IN
          (w1 # w2 /\ r1.useRes # "none" /\ r2.useRes # "none"
             /\ r1.fid = r2.fid /\ r1.code = r2.code) =>
              /\ ~(r1.useRes = "nil" /\ r2.useRes = "nil")
              /\ (r1.useRes = "nil" /\ r2.useRes # "ErrPersist") =>
                    /\ r2.useRes = ErrCodeNotFound
                    /\ r2.sess = 0
                    /\ r2.cid = 0
                    /\ accepted[r1.code] = 1

\* Both requests are past UseRecoveryCode with the same code: one won, one lost.
C2_Witness ==
    \E w1, w2 \in Workers :
        /\ w1 # w2
        /\ req[w1].fid = req[w2].fid
        /\ req[w1].code = req[w2].code
        /\ req[w1].useRes = "nil"
        /\ req[w1].pc = "issueSettings"
        /\ req[w1].sess # 0
        /\ req[w2].useRes = ErrCodeNotFound
        /\ req[w2].pc = "updateNotFound"

\* Requests that are past the delete step of the issue path.
PastDelete(r) == r.del /\ r.pc \in {"sendCode", "updateForm", "done"}

\* C3: resend invalidation.  When an email submission has passed the gates,
\* every code issued for the flow before its delete step is dead before the
\* new code is sent and stays dead, and a code that was deleted is never
\* accepted afterwards.
C3_ResendInvalidation ==
    /\ [](\A w \in Workers :
             PastDelete(req[w]) => \A c \in req[w].prior : ~LiveCode(codes[c]))
    /\ [][\A c \in 1 .. Len(codes) :
             codes[c].status = "deleted" =>
                 /\ accepted'[c] = accepted[c]
                 /\ codes'[c].status = "deleted"]_vars

\* A resend has sent its new code while an earlier code of the flow, submitted
\* by another request, was answered with ErrCodeNotFound.
C3_Witness ==
    \E w, v \in Workers :
        /\ req[w].pc = "updateForm"
        /\ req[w].sendRes = "nil"
        /\ req[v].useRes = ErrCodeNotFound
        /\ req[v].code \in req[w].prior
        /\ req[v].fid = req[w].fid
        /\ codes[req[v].code].status = "deleted"

\* C4: monotonic state.  With the submissions handled one after another, no
\* step persists a flow state that is earlier in the order choose_method ->
\* sent_email -> passed_challenge than the state already persisted.
C4_MonotonicState ==
    [][\A fid \in 1 .. Len(flows) :
          Rank(flows'[fid].state) >= Rank(flows[fid].state)]_vars

\* A flow that passed the challenge was persisted again by a later request
\* and is still in passed_challenge.
C4_Witness ==
    \E w \in Workers :
        /\ req[w].pc = "done"
        /\ req[w].s0 = StatePassedChallenge
        /\ req[w].wrote
        /\ flows[req[w].fid].state = StatePassedChallenge

\* C5: a flow in passed_challenge is frozen.  Whatever the payload, a
\* submission to such a flow looks up no code and does not update the flow's
\* persisted record.
C5_TerminalFrozen ==
    \A w \in Workers :
        req[w].s0 = StatePassedChallenge =>
            /\ req[w].useRes = "none"
            /\ ~req[w].wrote

\* C6: CSRF rejection precedes mutation.  A submission to a browser flow
\* without DangerousSkipCSRFCheck whose token does not verify deletes, sends
\* and consumes no code and does not update the submitted flow; all it may
\* persist is the replacement flow of the retry path.
C6_CSRFBeforeMutation ==
    \A w \in Workers :
        LET r == req[w] IN
        (Active(w) /\ r.f.type = TypeBrowser /\ ~r.f.skip /\ ~r.tok) =>
            /\ ~r.del
            /\ r.sendRes = "none"
            /\ r.useRes = "none"
            /\ r.cid = 0
            /\ ~r.wrote
            /\ r.sess = 0
            /\ r.pc \in {"retry", "done"}
            /\ r.newFlow # 0 =>
                  /\ r.newFlow \in 1 .. Len(flows)
                  /\ r.newFlow # r.fid
                  /\ flows[r.newFlow].state = StateChooseMethod

\* A code submission with a bad token to a browser flow that holds a live code
\* ended in a replacement flow; the code is still live.
C6_Witness ==
    \E w \in Workers :
        /\ req[w].pc = "done"
        /\ req[w].f.type = TypeBrowser
        /\ ~req[w].f.skip
        /\ ~req[w].tok
        /\ req[w].csrf = "ErrCSRF"
        /\ req[w].newFlow # 0
        /\ req[w].code \in LiveCodesOf(req[w].fid)

\* C7: anti-enumeration.  Whether the code sender reports success or
\* ErrUnknownAddress, the request continues the same way: the flow becomes
\* sent_email with the single "email with code sent" message, and when the
\* flow is persisted Recover returns nil and has written no response.
C7_AntiEnumeration ==
    \A w \in Workers :
        LET r == req[w] IN
        r.sendRes \in {"nil", ErrUnknownAddress} =>
            /\ r.f.state = StateEmailSent
            /\ r.f.msgs = <<MsgEmailWithCodeSent>>
            /\ r.f.active = RecoveryStrategyID
            /\ r.resp = <<>>
            /\ r.newFlow = 0
            /\ \/ r.pc = "updateForm" /\ ~r.wrote
               \/ r.pc = "done" /\ r.wrote /\ r.ret = "nil" /\ flows[r.fid] = r.f
               \/ r.pc = "done" /\ ~r.wrote /\ r.ret = "ErrPersist"

\* An unknown address was submitted and the request ended like a known one.
C7_Witness ==
    \E w \in Workers :
        /\ req[w].sendRes = ErrUnknownAddress
        /\ req[w].email = "u"
        /\ req[w].pc = "done"
        /\ req[w].ret = "nil"
        /\ req[w].s0 = StateChooseMethod
        /\ flows[req[w].fid].state = StateEmailSent
        /\ flows[req[w].fid].msgs = <<MsgEmailWithCodeSent>>

\* C8: a bad code is handled in place.  When UseRecoveryCode reports
\* ErrCodeNotFound the flow's messages are exactly the "invalid or already
\* used" message and its state is the one submitted; once the flow is
\* persisted Recover returns nil, no flow was created and no response was
\* written.  (Only a failing UpdateRecoveryFlow sends the request to the
\* retry path.)
C8_BadCodeInPlace ==
    \A w \in Workers :
        LET r == req[w] IN
        r.useRes = ErrCodeNotFound =>
            /\ r.f.msgs = <<MsgCodeInvalidOrAlreadyUsed>>
            /\ r.f.state = r.s0
            /\ r.sess = 0
            /\ \/ r.pc = "updateNotFound" /\ r.resp = <<>> /\ r.newFlow = 0 /\ ~r.wrote
               \/ /\ r.pc = "done"
                  /\ r.wrote
                  /\ r.ret = "nil"
                  /\ r.resp = <<>>
                  /\ r.newFlow = 0
                  /\ flows[r.fid] = r.f
               \/ r.pc \in {"retry", "done"} /\ ~r.wrote /\ r.retryErr = "ErrPersist"

\* A wrong code was submitted to a flow in sent_email; the flow was persisted
\* with the message and Recover returned nil.
C8_Witness ==
    \E w \in Workers :
        /\ req[w].useRes = ErrCodeNotFound
        /\ req[w].pc = "done"
        /\ req[w].ret = "nil"
        /\ req[w].s0 = StateEmailSent
        /\ flows[req[w].fid].state = StateEmailSent
        /\ flows[req[w].fid].msgs = <<MsgCodeInvalidOrAlreadyUsed>>
        /\ Len(flows) = 1

\* C9: at most one live code per flow, in every reachable state of every
\* interleaving of concurrent email submissions.
C9_AtMostOneLiveCode ==
    \A fid \in 1 .. Len(flows) : Cardinality(LiveCodesOf(fid)) <= 1

\* C10: consumption and state advance are atomic for the caller.  After a
\* completed Recover call in which UseRecoveryCode succeeded the flow is
\* persisted in passed_challenge.
C10_ConsumeAdvancesState ==
    \A w \in Workers :
        (req[w].pc = "done" /\ req[w].useRes = "nil") =>
            flows[req[w].fid].state = StatePassedChallenge

\* C11: retry keeps the flow type.  Every flow created by the retry path has
\* the type of the flow the request abandoned, also when the failure that
\* triggered the retry was the CSRF gate of an API flow.
C11_RetryKeepsType ==
    \A w \in Workers :
        req[w].newFlow # 0 => flows[req[w].newFlow].type = req[w].f.type

\* C12: uniform flow replacement.  A CSRF violation, an expired flow, a
\* disabled method and a failing flow or code persistence call never end a
\* Recover call with the raw error and no replacement flow: whenever Recover
\* has returned after one of these, it created a new flow.
C12_UniformReplacement ==
    \A w \in Workers :
        LET r == req[w] IN
        (/\ r.pc = "done"
         /\ \/ r.ret \in {"ErrCSRF", ErrOriginHeaderNeedsBrowserFlow,
                          ErrCookieHeaderNeedsBrowserFlow}
            \/ r.ret \in {"ErrExpired", "ErrNotFound", "ErrPersist"}
            \/ r.retryErr \in {"ErrCSRF", ErrOriginHeaderNeedsBrowserFlow,
                               ErrCookieHeaderNeedsBrowserFlow, "ErrPersist"})
            => (r.newFlow # 0 /\ r.ret = ErrCompletedByStrategy)

\* C13: a session only after a valid code.  Every session the strategy
\* created belongs to a code of the same flow that was consumed by a
\* successful UseRecoveryCode of the request that created the session; the
\* session's identity is the identity bound to that code, its assurance level
\* is aal1 and its authentication method is the recovery-code credential type.
C13_SessionOnlyAfterValidCode ==
    /\ \A i \in 1 .. Len(sessions) :
          LET s == sessions[i] IN
          /\ s.code \in 1 .. Len(codes)
          /\ codes[s.code].flow = s.flow
          /\ codes[s.code].status \in {"used", "deleted"}
          /\ accepted[s.code] >= 1
          /\ s.identity = codes[s.code].identity
          /\ s.aal = AuthenticatorAssuranceLevel1
          /\ s.method = CredentialsTypeRecoveryCode
    /\ \A w \in Workers :
          LET r == req[w] IN
          r.sess # 0 =>
              /\ r.useRes = "nil"
              /\ r.sess \in 1 .. Len(sessions)
              /\ sessions[r.sess].code = r.cid
              /\ sessions[r.sess].flow = r.fid
              /\ r.code = r.cid

\* A request consumed the code of its flow and a session for the code's
\* identity exists.
C13_Witness ==
    \E w \in Workers :
        /\ req[w].sess # 0
        /\ req[w].useRes = "nil"
        /\ req[w].pc = "done"
        /\ sessions[req[w].sess].identity = 1
        /\ sessions[req[w].sess].method = CredentialsTypeRecoveryCode
        /\ codes[req[w].cid].status = "used"

\* C14: only self-service codes verify addresses.  A step changes a
\* verifiable address only on behalf of a request that consumed a
\* self-service code, and then it is the unverified address equal to the
\* code's recovery address that becomes verified, completed and stamped with
\* the time of the request, every other address staying as it was; a request
\* that consumed an administrative code never does it.  When a request that
\* consumed a self-service code has moved on to persist passed_challenge, the
\* address of the code is verified and carries a verification time.
C14_OnlySelfServiceVerifies ==
    /\ [](\A w \in Workers :
            LET r == req[w] IN
            (r.cid # 0 /\ r.pc \in {"issueUpdate", "issueSession", "issueSettings"}
               /\ codes[r.cid].ctype = RecoveryCodeTypeSelfService) =>
                \A i \in 1 .. Len(addresses) :
                    addresses[i].value = codes[r.cid].address =>
                        addresses[i].verified /\ addresses[i].verifiedAt # 0)
    /\ [][addresses' # addresses =>
            \E w \in Workers :
                LET r == req[w] IN
                /\ r.pc = "markVerified"
                /\ req'[w].pc = "issueUpdate"
                /\ r.useRes = "nil"
                /\ codes[r.cid].ctype = RecoveryCodeTypeSelfService
                /\ flows[r.fid].state # StatePassedChallenge \/ r.s0 = StatePassedChallenge
                /\ \A i \in 1 .. Len(addresses) :
                      IF addresses[i].value = codes[r.cid].address /\ ~addresses[i].verified
                      THEN /\ addresses'[i].verified
                           /\ addresses'[i].status = "completed"
                           /\ addresses'[i].verifiedAt = 2
                           /\ addresses'[i].value = addresses[i].value
                      ELSE addresses'[i] = addresses[i]]_vars

\* A self-service code was consumed, its unverified address is now verified
\* and the flow is persisted in passed_challenge; the other address is
\* untouched.
C14_Witness ==
    \E w \in Workers :
        /\ req[w].pc = "issueSession"
        /\ codes[req[w].cid].ctype = RecoveryCodeTypeSelfService
        /\ codes[req[w].cid].address = "a"
        /\ addresses[1].verified
        /\ addresses[1].verifiedAt = 2
        /\ ~addresses[2].verified
        /\ flows[req[w].fid].state = StatePassedChallenge

\* C15: the method gate.  MethodEnabledAndAllowed returns no error exactly
\* when the requested method equals the expected strategy identifier and the
\* strategy is enabled for the flow being executed (code strategy:
\* RegistrationEnabled for registration, LoginEnabled for login, Enabled
\* otherwise); in every other case, a differing method included, it fails
\* with the not-found error.
C15_MethodGate ==
    call.fn = "MethodEnabledAndAllowed" /\ call.out # "none" =>
        LET enabled ==
                IF ToLower(call.expected) = "code"
                THEN (call.flowName = RegistrationFlow /\ call.config.code.RegistrationEnabled)
                     \/ (call.flowName = LoginFlow /\ call.config.code.LoginEnabled)
                     \/ (call.flowName \notin {RegistrationFlow, LoginFlow}
                            /\ call.config.code.Enabled)
                ELSE call.config.strategy[call.expected]
        IN IF call.actual = call.expected /\ enabled
           THEN call.out = "ok"
           ELSE call.out = "ErrNotFound"

\* C15, amended: MethodEnabledAndAllowed returns no error exactly when the
\* requested method equals the expected strategy identifier and the strategy
\* is enabled for the flow being executed; a requested method that differs
\* from the expected one fails with ErrStrategyNotResponsible, whatever the
\* configuration, and only an expected but disabled method fails with the
\* not-found error.
C15_MethodGateAmended ==
    call.fn = "MethodEnabledAndAllowed" /\ call.out # "none" =>
        LET enabled ==
                IF ToLower(call.expected) = "code"
                THEN (call.flowName = RegistrationFlow /\ call.config.code.RegistrationEnabled)
                     \/ (call.flowName = LoginFlow /\ call.config.code.LoginEnabled)
                     \/ (call.flowName \notin {RegistrationFlow, LoginFlow}
                            /\ call.config.code.Enabled)
                ELSE call.config.strategy[call.expected]
        IN CASE call.actual # call.expected -> call.out = ErrStrategyNotResponsible
             [] call.actual = call.expected /\ ~enabled -> call.out = "ErrNotFound"
             [] OTHER -> call.out = "ok"

\* The gate was asked about a method other than the expected one while the
\* expected strategy is enabled for the flow, and answered.
C15_Witness ==
    /\ call.fn = "MethodEnabledAndAllowed"
    /\ call.out = ErrStrategyNotResponsible
    /\ call.expected = "code"
    /\ call.actual = "link"
    /\ call.flowName = LoginFlow
    /\ call.config.code.LoginEnabled
    /\ ~call.config.code.Enabled

\* C16: the gate of API flows.  For a flow of type API EnsureCSRF does not
\* look at the submitted token: with API-flow enforcement disabled it
\* succeeds; otherwise it fails exactly when the request has a non-empty
\* Origin header or carries a cookie whose name does not start with "__cf",
\* and the Origin error wins when both hold.  For any other flow type it
\* succeeds exactly when the submitted token is the one generated for the
\* request.
C16_APIFlowGate ==
    call.fn = "EnsureCSRF" /\ call.out # "none" =>
        LET foreign ==
                \E i \in 1 .. Len(call.cookies) :
                    LET name == call.cookies[i] IN
                    ~(Len(name) >= 4 /\ name[1] = "_" /\ name[2] = "_"
                        /\ name[3] = "c" /\ name[4] = "f")
        IN IF call.flowType = TypeAPI
           THEN IF call.disableAPIFlowEnforcement THEN call.out = "ok"
                ELSE /\ call.out = "ok" <=> (call.origin = "" /\ ~foreign)
                     /\ call.origin # "" => call.out = ErrOriginHeaderNeedsBrowserFlow
                     /\ (call.origin = "" /\ foreign) =>
                            call.out = ErrCookieHeaderNeedsBrowserFlow
           ELSE /\ call.out = "ok" <=> call.actual = call.generated
                /\ call.out \in {"ok", "ErrCSRF"}

\* An API-flow request without Origin header whose second cookie is not one
\* of Cloudflare's was refused for its cookie, although it carried the
\* generated token.
C16_Witness ==
    /\ call.fn = "EnsureCSRF"
    /\ call.flowType = TypeAPI
    /\ ~call.disableAPIFlowEnforcement
    /\ call.origin = ""
    /\ call.cookies = <<<<"_", "_", "c", "f", "_", "b", "m">>, <<"s", "i", "d">>>>
    /\ call.actual = call.generated
    /\ call.out = ErrCookieHeaderNeedsBrowserFlow

\* C17: not responsible means no effect.  A request for a flow whose active
\* method is not the code strategy's has returned ErrStrategyNotResponsible
\* at once: it persisted and created no flow, deleted, sent and consumed no
\* code, issued no session and wrote no response, and the flow and the code
\* table are as the request found them.
C17_NotResponsibleNoEffect ==
    \A w \in Workers :
        LET r == req[w] IN
        (Active(w) /\ r.f.active # RecoveryStrategyID) =>
            /\ r.pc = "done"
            /\ r.ret = ErrStrategyNotResponsible
            /\ r.resp = <<>>
            /\ ~r.wrote
            /\ r.newFlow = 0
            /\ ~r.del
            /\ r.sendRes = "none"
            /\ r.useRes = "none"
            /\ r.sess = 0
            /\ r.csrf = "none"
            /\ flows[r.fid] = r.f
            /\ Len(flows) = 1
            /\ codes = <<>>
            /\ sessions = <<>>

\* A submission with an email arrived for a flow of the link method and
\* Recover returned ErrStrategyNotResponsible.
C17_Witness ==
    \E w \in Workers :
        /\ req[w].pc = "done"
        /\ req[w].f.active = "link"
        /\ req[w].email = "a"
        /\ req[w].ret = ErrStrategyNotResponsible
        /\ flows[1].state = StateChooseMethod
        /\ codes = <<>>

\* C18: already logged in.  Every submission of a client that holds a valid
\* session, with an email or with a code and in any flow state, that was
\* decoded and passed the CSRF gate is answered at once with the
\* already-authenticated response and ErrCompletedByStrategy: no code is
\* issued, deleted or consumed for it, no recovery flow is created and the
\* persisted record of the submitted flow is not updated.
C18_AlreadyLoggedIn ==
    loggedIn =>
        /\ \A w \in Workers :
              LET r == req[w] IN
              (Active(w) /\ r.csrf = "ok") =>
                  /\ r.pc = "done"
                  /\ r.ret = ErrCompletedByStrategy
                  /\ Len(r.resp) = 1
                  /\ r.resp[1].kind \in {"redirect", "json_error"}
                  /\ r.resp[1].status \in {307, 400}
                  /\ r.useRes = "none"
                  /\ r.sendRes = "none"
                  /\ ~r.del
                  /\ ~r.wrote
                  /\ r.newFlow = 0
        /\ \A c \in CodeValues : accepted[c] = 0

\* C19: no regression under concurrency.  In every interleaving of requests
\* on the same flow, each persisting its own in-memory copy with
\* UpdateRecoveryFlow, no step takes the persisted state of a flow from
\* passed_challenge back to an earlier state, and no step clears or replaces
\* a persisted RecoveredIdentityID.
C19_NoRegressionConcurrent ==
    [][\A fid \in 1 .. Len(flows) :
          /\ flows[fid].state = StatePassedChallenge =>
                flows'[fid].state = StatePassedChallenge
          /\ flows[fid].recovered # 0 => flows'[fid].recovered = flows[fid].recovered]_vars

\* C20: the recovered identity is set only on success.  Every persisted flow
\* has a RecoveredIdentityID exactly when its state is passed_challenge, and
\* then it is the identity bound to a code of that flow that was consumed; a
\* flow the retry path has just created is in choose_method without one.
C20_RecoveredOnlyOnSuccess ==
    /\ \A fid \in 1 .. Len(flows) :
          /\ flows[fid].recovered # 0 <=> flows[fid].state = StatePassedChallenge
          /\ flows[fid].recovered # 0 =>
                \E c \in 1 .. Len(codes) :
                    /\ codes[c].flow = fid
                    /\ accepted[c] >= 1
                    /\ codes[c].identity = flows[fid].recovered
    /\ \A w \in Workers :
          req[w].newFlow # 0 =>
              /\ flows[req[w].newFlow].recovered = 0
              /\ flows[req[w].newFlow].state = StateChooseMethod

\* One flow was recovered for identity 1 by its consumed code, and a later
\* request was sent to a fresh flow that carries no recovered identity.
C20_Witness ==
    /\ flows[1].state = StatePassedChallenge
    /\ flows[1].recovered = 1
    /\ \E c \in 1 .. Len(codes) : codes[c].flow = 1 /\ accepted[c] = 1
    /\ \E w \in Workers :
          /\ req[w].newFlow = 2
          /\ flows[2].recovered = 0

\* C21: email wins over code.  UseRecoveryCode is called only for a flow
\* that left choose_method and a payload without email.  A submission with an
\* email to a flow in sent_email, with or without a code in the payload, is a
\* resend: its code value never reaches UseRecoveryCode, and once Recover
\* has returned nil the codes the flow had are no longer usable, the flow is
\* persisted in sent_email and, the address being known, the code just sent
\* is the flow's usable code.
C21_EmailWinsOverCode ==
    \A w \in Workers :
        LET r == req[w] IN
        /\ r.useRes # "none" => (r.s0 # StateChooseMethod /\ r.email = "")
        /\ (Active(w) /\ r.email # "" /\ r.s0 = StateEmailSent) =>
              /\ r.useRes = "none"
              /\ r.cid = 0
              /\ r.sess = 0
              /\ r.pc \notin {"useCode", "updateNotFound", "getIdentity", "markVerified",
                              "issueUpdate", "issueSession", "issueSettings"}
              /\ (r.pc = "done" /\ r.ret = "nil") =>
                    /\ r.del
                    /\ r.wrote
                    /\ \A c \in r.prior : ~LiveCode(codes[c])
                    /\ flows[r.fid].state = StateEmailSent
                    /\ flows[r.fid].msgs = <<MsgEmailWithCodeSent>>
                    /\ r.email = "a" =>
                          /\ r.sendRes = "nil"
                          /\ Len(codes) \notin r.prior
                          /\ LiveCodesOf(r.fid) = {Len(codes)}

\* A payload with both an email and the live code of a flow in sent_email
\* was handled as a resend: the code it named is deleted, unused, and a new
\* one is live.
C21_Witness ==
    \E w \in Workers :
        /\ req[w].pc = "done"
        /\ req[w].ret = "nil"
        /\ req[w].s0 = StateEmailSent
        /\ req[w].email = "a"
        /\ req[w].code # 0
        /\ req[w].code \in req[w].prior
        /\ codes[req[w].code].status = "deleted"
        /\ accepted[req[w].code] = 0
        /\ LiveCodesOf(req[w].fid) = {Len(codes)}

\* C22: DangerousSkipCSRFCheck skips the anti-CSRF measures.  No submission
\* to a flow with DangerousSkipCSRFCheck set, be it a code or an email
\* submission, is rejected by the CSRF gate.
C22_SkipCSRFCheck ==
    \A w \in Workers :
        LET r == req[w] IN
        (Active(w) /\ r.f.skip) =>
            /\ r.csrf \in {"none", "ok"}
            /\ r.ret \notin {"ErrCSRF", ErrOriginHeaderNeedsBrowserFlow,
                             ErrCookieHeaderNeedsBrowserFlow}

\* C23: the outcome protocol with the caller.  A request never has more than
\* one response written; when Recover has returned, it returned
\* ErrCompletedByStrategy exactly when the strategy wrote one response (a
\* redirect, a JSON body or a JSON error), and with nil or any other error
\* nothing was written.
C23_OutcomeProtocol ==
    \A w \in Workers :
        LET r == req[w] IN
        /\ Len(r.resp) <= 1
        /\ r.pc # "done" => r.resp = <<>>
        /\ r.pc = "done" =>
              /\ r.ret = ErrCompletedByStrategy <=> Len(r.resp) = 1
              /\ r.ret # ErrCompletedByStrategy => r.resp = <<>>
              /\ \A i \in 1 .. Len(r.resp) :
                    r.resp[i].kind \in {"redirect", "json", "json_error"}

\* A code submission to an API flow ended with the JSON body of the flow as
\* the one response and ErrCompletedByStrategy.
C23_Witness ==
    \E w \in Workers :
        /\ req[w].pc = "done"
        /\ req[w].ret = ErrCompletedByStrategy
        /\ req[w].sess # 0
        /\ req[w].resp = <<[kind |-> "json", status |-> 200, target |-> req[w].fid]>>

\* C24: passed_challenge implies a session.  After every completed Recover
\* call each flow persisted in passed_challenge has a session that was issued
\* for it and for its RecoveredIdentityID.
C24_PassedImpliesSession ==
    (\E w \in Workers : req[w].pc = "done") =>
        \A fid \in 1 .. Len(flows) :
            flows[fid].state = StatePassedChallenge =>
                \E i \in 1 .. Len(sessions) :
                    /\ sessions[i].flow = fid
                    /\ sessions[i].identity = flows[fid].recovered

\* C25: a failed send leaves the flow where it was.  When SendRecoveryCode
\* fails with an error other than ErrUnknownAddress, Recover returns that
\* error, the persisted flow is the one the request fetched (state, active
\* method, messages), no flow was created, and a flow that had a usable code
\* before the submission still has one.
C25_FailedSendLeavesFlow ==
    \A w \in Workers :
        LET r == req[w] IN
        r.sendRes = "ErrSend" =>
            /\ r.pc = "done"
            /\ r.ret = "ErrSend"
            /\ flows[r.fid] = r.f
            /\ r.f.state = r.s0
            /\ ~r.wrote
            /\ r.newFlow = 0
            /\ r.resp = <<>>
            /\ r.usable # {} => LiveCodesOf(r.fid) # {}

\* C25, amended: when SendRecoveryCode fails with an error other than
\* ErrUnknownAddress, Recover returns that error, the persisted flow is the
\* one the request fetched, no flow was created and nothing was written to
\* the client; the codes the flow had were deleted before the send, so the
\* flow is left without a usable code.
C25_FailedSendDeletesCodes ==
    \A w \in Workers :
        LET r == req[w] IN
        r.sendRes = "ErrSend" =>
            /\ r.pc = "done"
            /\ r.ret = "ErrSend"
            /\ flows[r.fid] = r.f
            /\ r.f.state = r.s0
            /\ ~r.wrote
            /\ r.newFlow = 0
            /\ r.resp = <<>>
            /\ r.del
            /\ r.usable \subseteq r.prior
            /\ \A c \in r.prior : codes[c].status = "deleted"
            /\ LiveCodesOf(r.fid) = {}

\* A resend for a flow in sent_email with a usable code failed in the sender:
\* the flow is still in sent_email and its code is gone.
C25_Witness ==
    \E w \in Workers :
        /\ req[w].sendRes = "ErrSend"
        /\ req[w].pc = "done"
        /\ req[w].s0 = StateEmailSent
        /\ req[w].usable # {}
        /\ flows[req[w].fid].state = StateEmailSent
        /\ LiveCodesOf(req[w].fid) = {}

\* C26: the retry path hands out the new flow only.  A step that creates a
\* flow creates exactly one, for a request on the retry path, and changes no
\* persisted flow; a request the retry path completed for has its new flow
\* persisted with exactly one message (the flow-expired message when the
\* triggering error is an expiry, otherwise the message given or the one
\* derived from the error) and the one response written is a 303 redirect to
\* the new flow, never to the submitted one.
C26_RetryHandsOutNewFlow ==
    /\ [](\A w \in Workers :
            LET r == req[w] IN
            r.newFlow # 0 =>
                /\ r.pc = "done"
                /\ r.ret = ErrCompletedByStrategy
                /\ r.newFlow \in 1 .. Len(flows)
                /\ r.newFlow # r.fid
                /\ flows[r.newFlow].msgs =
                      <<IF r.retryMsg # "none" THEN r.retryMsg
                        ELSE IF r.retryErr = "ErrExpired" THEN MsgFlowExpired
                        ELSE MsgFromError>>
                /\ r.retryMsg # "none" \/ r.retryErr # "none"
                /\ r.resp = <<[kind |-> "redirect", status |-> 303, target |-> r.newFlow]>>)
    /\ [][flows' # flows /\ (\E w \in Workers : req[w].pc = "retry" /\ req'[w].pc = "done") =>
            /\ Len(flows') = Len(flows) + 1
            /\ SubSeq(flows', 1, Len(flows)) = flows
            /\ \E w \in Workers : req[w].newFlow = 0 /\ req'[w].newFlow = Len(flows')]_vars
    /\ [][Len(flows') # Len(flows) =>
            \E w \in Workers : req[w].pc = "retry" /\ req'[w].pc = "done"]_vars

\* The retry path was entered with an expiry error after the flow was made
\* terminal; the client was redirected to flow 2, which carries the
\* flow-expired message, and flow 1 is as the request left it.
C26_Witness ==
    \E w \in Workers :
        /\ req[w].pc = "done"
        /\ req[w].retryErr = "ErrExpired"
        /\ req[w].fid = 1
        /\ req[w].newFlow = 2
        /\ flows[2].msgs = <<MsgFlowExpired>>
        /\ flows[1].state = StatePassedChallenge
        /\ req[w].resp[1].target = 2

\* C27: the order of the issue path.  In every email submission the codes
\* of the flow are deleted only after the CSRF check passed, the code is
\* sent only after the deletion, the flow is set to sent_email with the
\* single "email with code sent" message only after the sender returned
\* success or ErrUnknownAddress, and only then persisted; no step takes a
\* persisted flow from choose_method to sent_email but that last one.  A
\* submission without email to a flow in choose_method reaches none of these
\* steps.
C27_IssuePathOrdering ==
    /\ [](\A w \in Workers :
            LET r == req[w] IN
            /\ r.pc \in {"deleteCodes", "sendCode", "updateForm"} =>
                  (r.csrf = "ok" /\ r.email # "" /\ r.useRes = "none")
            /\ r.del => (r.csrf = "ok" /\ r.pc # "deleteCodes")
            /\ r.pc = "deleteCodes" => (~r.del /\ r.sendRes = "none" /\ ~r.wrote)
            /\ r.pc = "sendCode" => (r.del /\ r.sendRes = "none" /\ ~r.wrote)
            /\ r.sendRes # "none" => r.del
            /\ r.pc = "updateForm" =>
                  /\ r.sendRes \in {"nil", ErrUnknownAddress}
                  /\ ~r.wrote
                  /\ r.f.state = StateEmailSent
                  /\ r.f.msgs = <<MsgEmailWithCodeSent>>
            /\ (r.wrote /\ r.email # "") =>
                  /\ r.sendRes \in {"nil", ErrUnknownAddress}
                  /\ r.del
                  /\ flows[r.fid].state = StateEmailSent
                  /\ flows[r.fid].msgs = <<MsgEmailWithCodeSent>>
            /\ (Active(w) /\ r.s0 = StateChooseMethod /\ r.email = "") =>
                  /\ ~r.del
                  /\ r.sendRes = "none"
                  /\ ~r.wrote
                  /\ r.csrf \in {"none", "ok"} /\ r.pc = "done" /\ r.newFlow = 0
                        /\ r.ret \notin {"ErrDecode", "ErrNotFound", "ErrPersist",
                                         "ErrExpired", ErrStrategyNotResponsible,
                                         ErrCompletedByStrategy}
                        => r.ret = "ErrRequired")
    /\ [][\A fid \in 1 .. Len(flows) :
            (flows[fid].state = StateChooseMethod /\ flows'[fid].state # StateChooseMethod) =>
                \E w \in Workers :
                    /\ req[w].pc = "updateForm"
                    /\ req[w].fid = fid
                    /\ req[w].sendRes \in {"nil", ErrUnknownAddress}
                    /\ req'[w].wrote
                    /\ flows'[fid].state = StateEmailSent]_vars

\* An email submission to a flow in choose_method went through deletion,
\* sending and the update: the flow is persisted in sent_email with its
\* message and its code is live.
C27_Witness ==
    \E w \in Workers :
        /\ req[w].pc = "done"
        /\ req[w].s0 = StateChooseMethod
        /\ req[w].email = "a"
        /\ req[w].csrf = "ok"
        /\ req[w].del
        /\ req[w].sendRes = "nil"
        /\ req[w].wrote
        /\ flows[req[w].fid].state = StateEmailSent
        /\ LiveCodesOf(req[w].fid) # {}

\* C28: address verification touches one exact match only.  A call of
\* markRecoveryAddressVerified hands at most one address to
\* UpdateVerifiableAddress and changes at most one stored address: the first
\* one whose value is exactly the code's recovery address, and only when it
\* is unverified; it is then verified, completed and stamped.  A matching
\* address that is already verified keeps its verification time, addresses
\* with other values are never changed, and without a match the call
\* succeeds without any update.
C28_OneExactMatch ==
    (call.fn = "markRecoveryAddressVerified" /\ call.out # "none") =>
        LET n == Len(call.addresses)
            matches == {i \in 1 .. n : call.addresses[i].value = call.value}
            changed == {i \in 1 .. n : call.stored[i] # call.addresses[i]}
        IN
        /\ Len(call.stored) = n
        /\ Len(call.updated) <= 1
        /\ Cardinality(changed) <= 1
        /\ \A i \in changed :
              /\ i \in matches
              /\ \A j \in matches : i <= j
              /\ ~call.addresses[i].verified
              /\ call.stored[i] = [value |-> call.value, verified |-> TRUE,
                                   verifiedAt |-> 2, status |-> "completed"]
              /\ call.updated = <<call.stored[i]>>
              /\ call.out = "nil"
        /\ \A i \in 1 .. n :
              (call.addresses[i].verified \/ call.addresses[i].value # call.value) =>
                  call.stored[i] = call.addresses[i]
        /\ matches = {} => (call.out = "nil" /\ call.updated = <<>>)
        /\ (\E i \in matches : call.addresses[i].verified /\ \A j \in matches : i <= j) =>
              (call.out = "nil" /\ call.updated = <<>> /\ changed = {})
        /\ call.out = "ErrUpdateAddress" => (changed = {} /\ Len(call.updated) = 1)
        /\ (call.out = "nil" /\ \E i \in matches :
                ~call.addresses[i].verified /\ \A j \in matches : i <= j) =>
              Cardinality(changed) = 1

\* The identity has a verified address "A" and an unverified address "a";
\* the code was sent to "a": only the second row was verified.
C28_Witness ==
    /\ call.fn = "markRecoveryAddressVerified"
    /\ call.out = "nil"
    /\ call.value = "a"
    /\ Len(call.addresses) = 2
    /\ call.addresses[1].value = "A"
    /\ call.addresses[1].verified
    /\ call.addresses[2].value = "a"
    /\ ~call.addresses[2].verified
    /\ call.stored[1] = call.addresses[1]
    /\ call.stored[2].verified
    /\ call.stored[2].verifiedAt = 2

\* C29: the post-login and post-registration verification hooks.  For a
\* flow whose active method is not the code credential type the hook returns
\* nil, asks for no code and updates no address.  Otherwise it hands at most
\* one address to UpdateVerifiableAddress, the first unverified address of
\* the session's identity whose value is the address of the used code, and
\* marks it verified with status completed; every other address is left as
\* it was, and a failing lookup or update is returned with nothing marked.
C29_VerificationHooks ==
    (call.fn \in {"ExecuteLoginPostHook", "ExecutePostRegistrationPostPersistHook"}
        /\ call.out # "none") =>
        LET n == Len(call.addresses)
            open == {i \in 1 .. n : ~call.addresses[i].verified
                                       /\ call.addresses[i].value = call.value}
            changed == {i \in 1 .. n : call.stored[i] # call.addresses[i]}
        IN
        IF call.active # "code"
        THEN /\ call.out = "nil"
             /\ ~call.looked
             /\ call.updated = <<>>
             /\ call.stored = call.addresses
        ELSE /\ call.looked
             /\ Len(call.stored) = n
             /\ Len(call.updated) <= 1
             /\ Cardinality(changed) <= 1
             /\ changed \subseteq open
             /\ \A i \in changed :
                   /\ \A j \in open : i <= j
                   /\ call.stored[i] = [value |-> call.value, verified |-> TRUE,
                                        verifiedAt |-> call.addresses[i].verifiedAt,
                                        status |-> "completed"]
                   /\ call.updated = <<call.stored[i]>>
             /\ call.out # "nil" => changed = {}
             /\ call.out = "ErrLookup" => call.updated = <<>>
             /\ call.out = "ErrUpdateAddress" => (open # {} /\ Len(call.updated) = 1)
             /\ call.out = "nil" => Cardinality(changed) = (IF open = {} THEN 0 ELSE 1)
             /\ open = {} => call.updated = <<>>

\* The login hook ran for an identity whose first address "a" is verified
\* and whose second address "a" is not, the code having been sent to "a":
\* the second was marked, the first kept.
C29_Witness ==
    /\ call.fn = "ExecuteLoginPostHook"
    /\ call.active = "code"
    /\ call.out = "nil"
    /\ call.value = "a"
    /\ Len(call.addresses) = 2
    /\ call.addresses[1].value = "a" /\ call.addresses[1].verified
    /\ call.addresses[2].value = "a" /\ ~call.addresses[2].verified
    /\ call.stored[1] = call.addresses[1]
    /\ call.stored[2].verified
    /\ call.stored[2].status = "completed"

\* C30: the SAML login entry point branches on the session.  Of the
\* requests that reach the branch (middleware present, continuity cookie
\* read), one from a user without an active session starts the SAML
\* authentication flow, and one from a user who holds a session does not
\* start it and is answered with a 307 redirect to the default return-to
\* address.
C30_SessionRedirects ==
    (call.fn = "saml" /\ call.out \in {"HandleStartAuthFlow", "redirect"}) =>
        IF call.session
        THEN ~call.started /\ call.status = 307 /\ call.target = "default_return_to"
        ELSE call.started /\ call.status = 0

\* C31: the SAML middleware registry, one operation after another.  The
\* providers with an entry are those instantiated with success since their
\* last DestroyMiddlewareIfExists, and GetMiddleware succeeds for exactly
\* them; a failed instantiation leaves the registry as it was; a handler
\* instantiates only when the entry is absent, and never dereferences an
\* absent entry (it returns after a failed instantiation); no operation
\* changes the entry of a provider other than its own.
C31_Registry ==
    call.fn = "saml" =>
        /\ call.samlMiddlewares = call.live
        /\ call.op = "GetMiddleware" =>
              /\ (call.out = "middleware") = (call.pid \in call.live)
              /\ call.out \in {"middleware", "error"}
              /\ call.samlMiddlewares = call.prev
        /\ call.inst = "failed" => (call.samlMiddlewares = call.prev /\ ~call.used)
        /\ call.inst = "ok" => call.pid \in call.samlMiddlewares
        /\ (call.op \in {"serveMetadata", "loginWithIdp"} /\ call.inst # "none")
              => call.pid \notin call.prev
        /\ (call.op \in {"serveMetadata", "loginWithIdp"} /\ call.inst = "none")
              => call.pid \in call.prev
        /\ call.op = "DestroyMiddlewareIfExists" => call.pid \notin call.samlMiddlewares
        /\ ~call.usedNil
        /\ \A q \in Providers \ {call.pid} :
              (q \in call.samlMiddlewares) = (q \in call.prev)

\* A metadata request for p1 whose instantiation failed, while p2 has a
\* middleware: the registry still holds p2 only and nothing was used.
C31_Witness ==
    /\ call.fn = "saml"
    /\ call.op = "serveMetadata"
    /\ call.pid = "p1"
    /\ call.inst = "failed"
    /\ call.samlMiddlewares = {"p2"}
    /\ call.status = 500
    /\ ~call.used

\* C32: the SAML registry under concurrent requests.  However metadata and
\* login requests and DestroyMiddlewareIfExists calls for one provider
\* interleave, no middleware is stored for a provider that has one (no
\* other store falls between a request's check for absence and its store),
\* no request dereferences an entry destroyed between its presence check and
\* its use, and the unsynchronised map is not written by two requests at
\* once.
C32_RegistryRaced ==
    call.fn = "samlRaced" =>
        /\ ~call.reinstantiated
        /\ \A g \in Goroutines : call.g[g].out # "panic"
        /\ ~call.fatal

====
